---- MODULE Spec2Model ----
(***************************************************************************)
(* State-machine model of the yalla stream-processing sketches:            *)
(*   CuckooFilter, BloomFilter   (src/src/yalla/streamprocessing/          *)
(*                                item_filters.py)                         *)
(*   HyperLogLog                 (src/src/yalla/streamprocessing/          *)
(*                                item_counters.py)                        *)
(*   XxHasher64 / XxHasher32     (src/src/yalla/hashing/hashers.py)        *)
(*                                                                         *)
(* Library calls are modelled by what the call sites rely on:              *)
(*  - xxh64_intdigest / xxh32_intdigest are deterministic functions of     *)
(*    (seed, data); they are modelled by fixed pseudo-random tables.       *)
(*  - bitarray slices follow Python slice semantics (indices clamped to    *)
(*    the length, assignment of a longer value grows the array).  The      *)
(*    slot write of CuckooFilter.__set_item (line 326) is written with a   *)
(*    tuple index; it is modelled as the slice [item_start:item_end] that  *)
(*    __get_item (line 314) reads.                                         *)
(*  - CuckooFilter calls self.__serializer.serialize(item); the model      *)
(*    takes the filter to be constructed with a serializer object that     *)
(*    offers serialize.                                                    *)
(*  - CuckooFilter.__get_locations hashes the integer fingerprint (line    *)
(*    272); the model takes the hasher to accept it as it accepts a        *)
(*    serialized item.                                                     *)
(*  - numpy computes 2 ** self.__buckets in the registers' type np.int8    *)
(*    and wraps on overflow; 1 / 0 is inf there.  HyperLogLog.unique_count *)
(*    is modelled by the branch it takes and the integers its floats are   *)
(*    computed from, the bias correction factor in thousandths.            *)
(*  - assert statements are executed (the interpreter runs without -O).    *)
(***************************************************************************)
EXTENDS Integers, Sequences, FiniteSets, TLC

VARIABLES
    sketch,                        \* the class the program instantiates
    \* CuckooFilter
    ck_number_of_buckets,          \* self.__number_of_buckets
    ck_bit_array,                  \* self.__bit_array, a sequence of bits
    ck_current_items_per_bucket,   \* self.__current_items_per_bucket
    \* history of the CuckooFilter run (not program state)
    ck_inserted,                   \* item -> number of adds not yet deleted
    ck_intact,                     \* no add failed, no delete of an absent item
    ck_last,                       \* the last call and its outcome
    ck_other,                      \* a second CuckooFilter (merge_with's argument)
    ck_calls,                      \* number of calls made so far
    \* BloomFilter: two filters, indexed by Instances
    bf_size,                       \* self.__size
    bf_number_of_hashers,          \* self.__number_of_hashers
    bf_seeds,                      \* the seeds held by self.__hashers
    bf_bit_array,                  \* self.__bit_array, a sequence of bits
    bf_third,                      \* the bit array of a third filter built like "x"
    \* history of the BloomFilter run (not program state)
    bf_added,                      \* items added since clear, directly or by
                                   \* merge_with of a filter with the same seeds
    bf_last,                       \* the last call, its outcome, the receiver before it
    \* HyperLogLog: two counters, indexed by Instances
    hll_requested,                 \* the requested_number_of_buckets argument
    hll_number_of_buckets,         \* self.__number_of_buckets
    hll_bucket_prefix_length,      \* self.__bucket_prefix_length
    hll_seed,                      \* the seed held by self.__hasher
    hll_buckets,                   \* self.__buckets, the int8 registers
    hll_bucket_activations,        \* self.__bucket_activations
    hll_number_of_activated_buckets, \* self.__number_of_activated_buckets
    hll_third,                     \* the registers of a third counter built like "x"
    \* constructor calls with arguments of any kind
    ct_log,                        \* the calls made so far, each with its outcome
    \* hashers: two hashers of one class, indexed by Instances
    hs_class,                      \* XxHasher64 or XxHasher32
    hs_argument,                   \* the seed argument given to both constructors
    hs_seed,                       \* self.__seed
    \* history of the hashers' run (not program state)
    hs_results,                    \* the data hashed so far with both outputs
    \* history of the HyperLogLog run (not program state)
    hll_added,                     \* items added since clear, directly or by
                                   \* merge_with of a counter with the same seed
    hll_last                       \* the last call, its outcome, the receiver before it

ckvars == <<ck_number_of_buckets, ck_bit_array, ck_current_items_per_bucket,
            ck_inserted, ck_intact, ck_last, ck_other, ck_calls>>

\* what __init__ fixes for the life of a BloomFilter
bfparams == <<bf_size, bf_number_of_hashers, bf_seeds>>

bfvars == <<bf_size, bf_number_of_hashers, bf_seeds, bf_bit_array, bf_third,
            bf_added, bf_last>>

\* what __init__ fixes for the life of a HyperLogLog
hllparams == <<hll_requested, hll_number_of_buckets, hll_bucket_prefix_length,
               hll_seed>>

hllvars == <<hll_requested, hll_number_of_buckets, hll_bucket_prefix_length,
             hll_seed, hll_buckets, hll_bucket_activations,
             hll_number_of_activated_buckets, hll_third, hll_added, hll_last>>

hsvars == <<hs_class, hs_argument, hs_seed, hs_results>>

vars == <<sketch, ckvars, bfvars, hllvars, hsvars, ct_log>>

----------------------------------------------------------------------------
\* Bounds of the model

\* items are 1..NumItems
NumItems == 3

\* number of calls made on one sketch
MaxCalls == 5

\* number of items added to the argument of CuckooFilter.merge_with
MaxOtherCalls == 1

Items == 1..NumItems

\* the two sketches of one class a run works with
Instances == {"x", "y"}

----------------------------------------------------------------------------
\* Generic helpers

Min(a, b) == IF a < b THEN a ELSE b

Max(a, b) == IF a > b THEN a ELSE b

RECURSIVE Pow2(_)
Pow2(n) == IF n = 0 THEN 1 ELSE 2 * Pow2(n - 1)

\* Python's a ^ b on non-negative integers
RECURSIVE BitXor(_, _)
BitXor(a, b) ==
    IF a = 0 THEN b
    ELSE IF b = 0 THEN a
    ELSE (((a % 2) + (b % 2)) % 2) + 2 * BitXor(a \div 2, b \div 2)

\* Python's a & b on non-negative integers
RECURSIVE BitAnd(_, _)
BitAnd(a, b) ==
    IF a = 0 \/ b = 0 THEN 0
    ELSE ((a % 2) * (b % 2)) + 2 * BitAnd(a \div 2, b \div 2)

RECURSIVE SumTo(_, _)
SumTo(f, n) == IF n < 0 THEN 0 ELSE f[n] + SumTo(f, n - 1)

\* bitarray[s:e] with Python's clamping of slice indices
SliceGet(bits, s, e) ==
    LET s1 == Min(s, Len(bits))
        e1 == Min(e, Len(bits))
    IN  IF e1 <= s1 THEN <<>> ELSE SubSeq(bits, s1 + 1, e1)

\* bitarray[s:e] = new with Python's clamping; the array grows when the
\* slice is shorter than the value assigned to it
SliceSet(bits, s, e, new) ==
    LET s1 == Min(s, Len(bits))
        e1 == Max(s1, Min(e, Len(bits)))
    IN  SubSeq(bits, 1, s1) \o new \o SubSeq(bits, e1 + 1, Len(bits))

----------------------------------------------------------------------------
\* Hash layer (hashers.py)

\* Input of a hasher: a serialized item <<"str", i>> or an integer
\* <<"int", v>> (CuckooFilter hashes the fingerprint itself, line 272)
DataCode(data) == IF data[1] = "str" THEN data[2] ELSE 8 + data[2]

\* xxh64_intdigest: one row per seed, one column per input
Digest64Table ==
    << <<3, 9, 14, 6, 1, 12, 10, 4, 2, 13, 7, 5, 11, 8, 15, 0>>,
       <<12, 13, 4, 3, 6, 11, 2, 7, 5, 5, 8, 9, 4, 6, 11, 1>>,
       <<3, 8, 1, 6, 10, 2, 13, 0, 4, 9, 12, 5, 7, 11, 14, 15>>,
       <<15, 7, 5, 2, 9, 4, 12, 1, 6, 3, 10, 8, 13, 0, 11, 14>>,
       <<256, 257, 258, 515, 2, 8, 21, 0, 3, 9, 12, 4, 7, 11, 14, 15>> >>

\* xxh32_intdigest: one row per seed, one column per input
Digest32Table ==
    << <<5, 6, 7, 9, 8, 2, 15, 0, 3, 10, 12, 1, 4, 11, 13, 14>>,
       <<3, 10, 12, 1, 5, 6, 9, 7, 8, 2, 15, 4, 11, 13, 14, 0>> >>

\* XxHasher64.hash: xxh64_intdigest(serialized_item, seed)
XxHasher64_hash(seed, data) ==
    LET row == Digest64Table[((seed - 1) % Len(Digest64Table)) + 1]
    IN  row[((DataCode(data) - 1) % Len(row)) + 1]

\* XxHasher32.hash: xxh32_intdigest(serialized_item, seed)
XxHasher32_hash(seed, data) ==
    LET row == Digest32Table[((seed - 1) % Len(Digest32Table)) + 1]
    IN  row[((DataCode(data) - 1) % Len(row)) + 1]

\* the serializer object's serialize(item)
Serialize(item) == <<"str", item>>

----------------------------------------------------------------------------
\* CuckooFilter: construction parameters

\* seeds argument: (fingerprinting hasher seed, bucket hasher seed)
CkSeeds == <<1, 2>>

\* fingerprint_size argument
ck_fingerprint_size == 2

\* items_per_bucket argument
ck_max_items_per_bucket == 2

\* max_item_relocations argument
ck_max_item_relocations == 2

\* target_total_size arguments tried
CkTargetTotalSizes == {13, 16}

ck_bucket_size == ck_max_items_per_bucket * ck_fingerprint_size

ck_fingerprint_mask == Pow2(ck_fingerprint_size) - 1

Buckets == 0..(ck_number_of_buckets - 1)

----------------------------------------------------------------------------
\* CuckooFilter: slot access

\* __item_bit_coordinates
ItemBitCoordinates(bucket_id, item_id) ==
    LET item_start == bucket_id * ck_bucket_size + item_id * ck_fingerprint_size
    IN  <<item_start, item_start + ck_fingerprint_size>>

\* __bit_array_to_int: the first bit is the most significant
RECURSIVE BitArrayToInt(_)
BitArrayToInt(bits) ==
    IF bits = <<>> THEN 0
    ELSE 2 * BitArrayToInt(SubSeq(bits, 1, Len(bits) - 1)) + bits[Len(bits)]

\* binary digits of n, most significant first, without leading zeros
RECURSIVE BinaryDigits(_)
BinaryDigits(n) ==
    IF n < 2 THEN <<n>> ELSE Append(BinaryDigits(n \div 2), n % 2)

\* format(fingerprint, '0<width>b'): zero-padded on the left to width
FormatBits(n, width) ==
    LET d == BinaryDigits(n)
    IN  IF Len(d) >= width THEN d
        ELSE [i \in 1..(width - Len(d)) |-> 0] \o d

\* __get_item
GetItem(bits, bucket_id, item_id) ==
    LET c == ItemBitCoordinates(bucket_id, item_id)
    IN  BitArrayToInt(SliceGet(bits, c[1], c[2]))

\* __set_item
SetItem(bits, bucket_id, item_id, fingerprint) ==
    LET c == ItemBitCoordinates(bucket_id, item_id)
    IN  SliceSet(bits, c[1], c[2], FormatBits(fingerprint, ck_fingerprint_size))

\* __fingerprint
Fingerprint(item) ==
    BitAnd(XxHasher32_hash(CkSeeds[1], Serialize(item)), ck_fingerprint_mask)

\* __get_locations
GetLocations(item, fingerprint) ==
    LET location1 == XxHasher64_hash(CkSeeds[2], Serialize(item)) % ck_number_of_buckets
        location2 == BitXor(location1, XxHasher64_hash(CkSeeds[2], <<"int", fingerprint>>))
                        % ck_number_of_buckets
    IN  <<location1, location2>>

\* __get_item_id_in_bucket: the first occupied slot holding fingerprint, or -1
GetItemIdInBucket(bits, occ, bucket_id, fingerprint) ==
    LET hits == {item_id \in 0..(occ[bucket_id] - 1) :
                    GetItem(bits, bucket_id, item_id) = fingerprint}
    IN  IF hits = {} THEN -1
        ELSE CHOOSE item_id \in hits : \A other \in hits : item_id <= other

\* __is_bucket_available
IsBucketAvailable(occ, bucket_id) == occ[bucket_id] < ck_max_items_per_bucket

\* __contains__
CkContains(bits, occ, item) ==
    LET fingerprint == Fingerprint(item)
        locations == GetLocations(item, fingerprint)
    IN  \E k \in 1..2 : GetItemIdInBucket(bits, occ, locations[k], fingerprint) >= 0

----------------------------------------------------------------------------
\* CuckooFilter: add, delete, clear, merge_with

\* __append_item_to_bucket
AppendItemToBucket(st, bucket_id, fingerprint) ==
    [bits |-> SetItem(st.bits, bucket_id, st.occ[bucket_id], fingerprint),
     occ  |-> [st.occ EXCEPT ![bucket_id] = @ + 1]]

\* The eviction loop of add (lines 290-297), entered with item_relocations
\* = done: the set of outcomes over the random choices of
\* __swap_with_random_item_from_bucket.  random.randrange(0, 0) raises
\* ValueError when the bucket is empty.
RECURSIVE RelocationLoop(_, _, _, _)
RelocationLoop(st, current_location, fingerprint, done) ==
    IF done >= ck_max_item_relocations
    THEN {[bits |-> st.bits, occ |-> st.occ, result |-> "CuckooInsertionFailure",
           relocations |-> done, dropped |-> fingerprint]}
    ELSE IF st.occ[current_location] = 0
    THEN {[bits |-> st.bits, occ |-> st.occ, result |-> "ValueError",
           relocations |-> done, dropped |-> fingerprint]}
    ELSE UNION {
        LET item_to_swap == GetItem(st.bits, current_location, id_to_swap)
            swapped == [bits |-> SetItem(st.bits, current_location, id_to_swap, fingerprint),
                        occ  |-> st.occ]
            next_location ==
                BitXor(current_location,
                       XxHasher64_hash(CkSeeds[2], <<"int", item_to_swap>>))
                    % ck_number_of_buckets
        IN  IF IsBucketAvailable(swapped.occ, next_location)
            THEN LET after == AppendItemToBucket(swapped, next_location, item_to_swap)
                 IN  {[bits |-> after.bits, occ |-> after.occ, result |-> "ok",
                       relocations |-> done + 1, dropped |-> -1]}
            ELSE RelocationLoop(swapped, next_location, item_to_swap, done + 1)
        : id_to_swap \in 0..(st.occ[current_location] - 1) }

\* the bucket add appends to when a candidate bucket is available (line 286)
AddTargetBucket(locations, available_locations) == locations[1]

\* add: the set of outcomes over its random choices
AddOutcomes(st, item) ==
    LET fingerprint == Fingerprint(item)
        locations == GetLocations(item, fingerprint)
        available_locations == {k \in 1..2 : IsBucketAvailable(st.occ, locations[k])}
    IN  IF available_locations # {}
        THEN LET after == AppendItemToBucket(
                              st, AddTargetBucket(locations, available_locations),
                              fingerprint)
             IN  {[bits |-> after.bits, occ |-> after.occ, result |-> "ok",
                   relocations |-> 0, dropped |-> -1]}
        ELSE UNION {RelocationLoop(st, locations[k], fingerprint, 0) : k \in 1..2}

\* an iteration of the loop of delete without the test of line 346: the last
\* occupied slot of the bucket is dropped whether or not the fingerprint was
\* found
DeleteInLocationUnconditional(st, location, fingerprint) ==
    IF st.occ[location] > 0
    THEN [bits |-> st.bits, occ |-> [st.occ EXCEPT ![location] = @ - 1]]
    ELSE st

\* one iteration of the loop of delete (lines 344-348)
DeleteInLocation(st, location, fingerprint) ==
    LET item_id == GetItemIdInBucket(st.bits, st.occ, location, fingerprint)
    IN  IF item_id >= 0
        THEN LET last_item_in_bucket ==
                     GetItem(st.bits, location, st.occ[location] - 1)
             IN  [bits |-> SetItem(st.bits, location, item_id, last_item_in_bucket),
                  occ  |-> [st.occ EXCEPT ![location] = @ - 1]]
        ELSE st

\* delete: the loop visits both locations and has no break
DeleteResult(st, item) ==
    LET fingerprint == Fingerprint(item)
        locations == GetLocations(item, fingerprint)
    IN  DeleteInLocation(DeleteInLocation(st, locations[1], fingerprint),
                         locations[2], fingerprint)

\* clear: self.__bit_array.setall(False) and nothing else
ClearResult(st) ==
    [bits |-> [i \in 1..Len(st.bits) |-> 0], occ |-> st.occ]

\* bitarray(total_size) (line 226) allocates the bits without setting them
\* and __init__ does not clear them: memory that reads as all 0 and memory
\* that reads as all 1 stand for the contents the allocation may have
UninitializedMemory == {0, 1}

\* the state of a freshly constructed filter (__init__, lines 226-230) whose
\* bit array was allocated in memory reading as memory
FreshCuckoo(number_of_buckets, memory) ==
    [bits |-> [i \in 1..(number_of_buckets * ck_bucket_size) |-> memory],
     occ  |-> [b \in 0..(number_of_buckets - 1) |-> 0]]

\* a merge_with that ORs the argument's bit array into the receiver's
MergeWithUnion(st, other) ==
    [self   |-> [bits |-> [i \in 1..Len(st.bits) |->
                             IF i <= Len(other.bits) /\ other.bits[i] = 1
                             THEN 1 ELSE st.bits[i]],
                 occ  |-> st.occ],
     other  |-> other,
     result |-> "ok"]

\* merge_with: raises NotImplementedError before touching either filter
MergeWithResult(st, other) ==
    [self |-> st, other |-> other, result |-> "NotImplementedError"]

CkState == [bits |-> ck_bit_array, occ |-> ck_current_items_per_bucket]

TotalOccupancy(occ) == SumTo(occ, ck_number_of_buckets - 1)

Call(op, item, result, relocations, dropped) ==
    [op |-> op, item |-> item, result |-> result,
     relocations |-> relocations, dropped |-> dropped]

NoCall == Call("init", 0, "ok", 0, -1)

\* __init__: number_of_buckets = floor(target_total_size / bucket_size)
CkInit ==
    \E target_total_size \in CkTargetTotalSizes :
      \E memory \in UninitializedMemory, other_memory \in UninitializedMemory :
        LET number_of_buckets == target_total_size \div ck_bucket_size
        IN
        /\ ck_number_of_buckets = number_of_buckets
        /\ ck_bit_array = FreshCuckoo(number_of_buckets, memory).bits
        /\ ck_current_items_per_bucket = FreshCuckoo(number_of_buckets, memory).occ
        /\ ck_other = FreshCuckoo(number_of_buckets, other_memory)
        /\ ck_inserted = [i \in Items |-> 0]
        /\ ck_intact = TRUE
        /\ ck_last = NoCall
        /\ ck_calls = 0

\* no CuckooFilter is constructed
CkAbsent ==
    /\ ck_number_of_buckets = 0
    /\ ck_bit_array = <<>>
    /\ ck_current_items_per_bucket = <<>>
    /\ ck_other = [bits |-> <<>>, occ |-> <<>>]
    /\ ck_inserted = [i \in Items |-> 0]
    /\ ck_intact = TRUE
    /\ ck_last = NoCall
    /\ ck_calls = 0

CkAdd ==
    \E item \in Items :
        /\ sketch = "CuckooFilter"
        /\ ck_calls < MaxCalls
        /\ \E out \in AddOutcomes(CkState, item) :
            /\ ck_bit_array' = out.bits
            /\ ck_current_items_per_bucket' = out.occ
            /\ ck_inserted' = IF out.result = "ok" /\ ck_intact
                              THEN [ck_inserted EXCEPT ![item] = @ + 1]
                              ELSE ck_inserted
            /\ ck_intact' = (ck_intact /\ out.result = "ok")
            /\ ck_last' = Call("add", item, out.result, out.relocations, out.dropped)
            /\ ck_calls' = ck_calls + 1
            /\ UNCHANGED <<sketch, hsvars, ct_log, bfvars, hllvars, ck_number_of_buckets, ck_other>>

CkDelete ==
    \E item \in Items :
        LET out == DeleteResult(CkState, item)
        IN  /\ sketch = "CuckooFilter"
            /\ ck_calls < MaxCalls
            /\ ck_bit_array' = out.bits
            /\ ck_current_items_per_bucket' = out.occ
            /\ ck_inserted' = IF ck_inserted[item] > 0 /\ ck_intact
                              THEN [ck_inserted EXCEPT ![item] = @ - 1]
                              ELSE ck_inserted
            /\ ck_intact' = (ck_intact /\ ck_inserted[item] > 0)
            /\ ck_last' = Call("delete", item, "ok", 0, -1)
            /\ ck_calls' = ck_calls + 1
            /\ UNCHANGED <<sketch, hsvars, ct_log, bfvars, hllvars, ck_number_of_buckets, ck_other>>

CkClear ==
    LET out == ClearResult(CkState)
    IN  /\ sketch = "CuckooFilter"
        /\ ck_calls < MaxCalls
        /\ ck_bit_array' = out.bits
        /\ ck_current_items_per_bucket' = out.occ
        /\ ck_inserted' = [i \in Items |-> 0]
        /\ ck_last' = Call("clear", 0, "ok", 0, -1)
        /\ ck_calls' = ck_calls + 1
        /\ UNCHANGED <<sketch, hsvars, ct_log, bfvars, hllvars, ck_number_of_buckets, ck_other, ck_intact>>

CkMergeWith ==
    LET out == MergeWithResult(CkState, ck_other)
    IN  /\ sketch = "CuckooFilter"
        /\ ck_calls < MaxCalls
        /\ ck_bit_array' = out.self.bits
        /\ ck_current_items_per_bucket' = out.self.occ
        /\ ck_other' = out.other
        /\ ck_last' = Call("merge_with", 0, out.result, 0, -1)
        /\ ck_calls' = ck_calls + 1
        /\ UNCHANGED <<sketch, hsvars, ct_log, bfvars, hllvars, ck_number_of_buckets, ck_inserted, ck_intact>>

\* add on the second filter, which merge_with is then given
CkOtherAdd ==
    \E item \in Items :
        /\ sketch = "CuckooFilter"
        /\ TotalOccupancy(ck_other.occ) < MaxOtherCalls
        /\ \E out \in AddOutcomes(ck_other, item) :
            /\ ck_other' = [bits |-> out.bits, occ |-> out.occ]
            /\ UNCHANGED <<sketch, hsvars, ct_log, bfvars, hllvars, ck_number_of_buckets,
                           ck_bit_array, ck_current_items_per_bucket,
                           ck_inserted, ck_intact, ck_last, ck_calls>>

CkNextAddDelete == CkAdd \/ CkDelete

CkNext == CkAdd \/ CkDelete \/ CkClear \/ CkMergeWith

CkNextMerge == CkAdd \/ CkMergeWith \/ CkOtherAdd

----------------------------------------------------------------------------
\* BloomFilter

\* DEFAULT_SEEDS: the seeds of the two XxHasher64 base hashers
BfSeeds == <<3, 4>>

\* seeds arguments tried: the default and an explicit pair; none is 0, so
\* XxHasher64.__init__ keeps each seed as given
BfSeedsArguments == {BfSeeds, <<4, 3>>}

\* constructor arguments tried: <<expected_item_count, e>>, where
\* target_false_positive_prob is 2^-e
BfArguments == {<<1, 3>>, <<2, 2>>}

\* math.log(2), in millionths
LnTwoMillionths == 693147

CeilDiv(a, b) == (a + b - 1) \div b

\* __calculate_number_of_hashing_functions: ceil(-log2(p)), p = 2^-e
CalculateNumberOfHashingFunctions(e) == e

\* __calculate_bit_array_size: ceil(-n * ln(p) / ln(2)^2), p = 2^-e,
\* which is ceil(n * e / ln(2))
CalculateBitArraySize(expected_item_count, e) ==
    CeilDiv(expected_item_count * e * 1000000, LnTwoMillionths)

\* base_hashes = [hasher.hash(serialized_item) for hasher in self.__hashers]
BaseHashes(seeds, item) ==
    [i \in 1..Len(seeds) |-> XxHasher64_hash(seeds[i], Serialize(item))]

\* __calculate_lookup_position: enhanced double hashing
CalculateLookupPosition(base_hashes, hash_number, size) ==
    (base_hashes[1] + hash_number * base_hashes[2] + hash_number * hash_number)
        % size

\* __bit_at_ith_hash
BitAtIthHash(seeds, bits, size, hash_number, item) ==
    bits[CalculateLookupPosition(BaseHashes(seeds, item), hash_number, size) + 1] = 1

\* __contains__
BfContains(seeds, bits, size, number_of_hashers, item) ==
    \A hash_number \in 0..(number_of_hashers - 1) :
        BitAtIthHash(seeds, bits, size, hash_number, item)

\* an add that sets the bit of the first lookup position only
BfAddFirstPositionOnly(seeds, bits, size, number_of_hashers, item) ==
    [i \in 1..Len(bits) |->
        IF i - 1 = CalculateLookupPosition(BaseHashes(seeds, item), 0, size)
        THEN 1 ELSE bits[i]]

\* add: sets the bit of every lookup position
BfAddResult(seeds, bits, size, number_of_hashers, item) ==
    [i \in 1..Len(bits) |->
        IF \E hash_number \in 0..(number_of_hashers - 1) :
              i - 1 = CalculateLookupPosition(BaseHashes(seeds, item), hash_number, size)
        THEN 1 ELSE bits[i]]

\* a merge_with that ANDs the argument's bit array into the receiver's
BfMergeIntersects(self, other) ==
    IF self.size # other.size
    THEN [bits |-> self.bits, result |-> "AssertionError"]
    ELSE [bits   |-> [i \in 1..Len(self.bits) |->
                         IF other.bits[i] = 1 THEN self.bits[i] ELSE 0],
          result |-> "ok"]

\* a merge_with that checks the sizes and leaves the bit array as it is
BfMergeKeepsSelf(self, other) ==
    IF self.size # other.size
    THEN [bits |-> self.bits, result |-> "AssertionError"]
    ELSE [bits |-> self.bits, result |-> "ok"]

\* a merge_with that assigns the argument's bit array instead of ORing it
BfMergeCopiesOther(self, other) ==
    IF self.size # other.size
    THEN [bits |-> self.bits, result |-> "AssertionError"]
    ELSE [bits |-> other.bits, result |-> "ok"]

\* merge_with: asserts equal sizes, then self.__bit_array |= other's
BfMergeWithResult(self, other) ==
    IF self.size # other.size
    THEN [bits |-> self.bits, result |-> "AssertionError"]
    ELSE [bits   |-> [i \in 1..Len(self.bits) |->
                         IF other.bits[i] = 1 THEN 1 ELSE self.bits[i]],
          result |-> "ok"]

\* a clear that leaves the bit array as it is
BfClearKeepsBits(bits) == bits

\* clear: self.__bit_array.setall(False)
BfClearResult(bits) == [i \in 1..Len(bits) |-> 0]

\* the bit array of a freshly constructed filter (__init__, lines 110-111)
FreshBloom(size) == [i \in 1..size |-> 0]

BfStateOf(f) == [size |-> bf_size[f], bits |-> bf_bit_array[f]]

BfCall(op, self, item, other, result, pre) ==
    [op |-> op, self |-> self, item |-> item, other |-> other,
     result |-> result, pre |-> pre]

BfNoCall == BfCall("init", "x", 0, "x", "ok", <<>>)

\* __init__ of both filters
BfInit ==
    \E args \in [Instances -> BfArguments],
       seeds \in [Instances -> BfSeedsArguments] :
        /\ bf_seeds = seeds
        /\ bf_size = [f \in Instances |->
                         CalculateBitArraySize(args[f][1], args[f][2])]
        /\ bf_number_of_hashers =
               [f \in Instances |-> CalculateNumberOfHashingFunctions(args[f][2])]
        /\ bf_bit_array = [f \in Instances |->
               FreshBloom(CalculateBitArraySize(args[f][1], args[f][2]))]
        /\ bf_third = FreshBloom(CalculateBitArraySize(args["x"][1], args["x"][2]))
        /\ bf_added = [f \in Instances |-> {}]
        /\ bf_last = BfNoCall

\* no BloomFilter is constructed
BfAbsent ==
    /\ bf_size = [f \in Instances |-> 0]
    /\ bf_number_of_hashers = [f \in Instances |-> 0]
    /\ bf_seeds = [f \in Instances |-> <<>>]
    /\ bf_bit_array = [f \in Instances |-> <<>>]
    /\ bf_third = <<>>
    /\ bf_added = [f \in Instances |-> {}]
    /\ bf_last = BfNoCall

BfAdd ==
    \E self \in Instances, item \in Items :
        /\ sketch = "BloomFilter"
        /\ bf_bit_array' = [bf_bit_array EXCEPT ![self] =
               BfAddResult(bf_seeds[self], bf_bit_array[self], bf_size[self],
                           bf_number_of_hashers[self], item)]
        /\ bf_added' = [bf_added EXCEPT ![self] = @ \cup {item}]
        /\ bf_last' = BfCall("add", self, item, self, "ok", bf_bit_array[self])
        /\ UNCHANGED <<sketch, hsvars, ct_log, ckvars, hllvars, bfparams, bf_third>>

BfMergeWith ==
    \E self \in Instances, other \in Instances :
        LET out == BfMergeWithResult(BfStateOf(self), BfStateOf(other))
        IN  /\ sketch = "BloomFilter"
            /\ bf_bit_array' = [bf_bit_array EXCEPT ![self] = out.bits]
            /\ bf_added' = IF out.result = "ok" /\ bf_seeds[self] = bf_seeds[other]
                           THEN [bf_added EXCEPT ![self] = @ \cup bf_added[other]]
                           ELSE bf_added
            /\ bf_last' = BfCall("merge_with", self, 0, other, out.result,
                                 bf_bit_array[self])
            /\ UNCHANGED <<sketch, hsvars, ct_log, ckvars, hllvars, bfparams, bf_third>>

BfClear ==
    \E self \in Instances :
        /\ sketch = "BloomFilter"
        /\ bf_bit_array' = [bf_bit_array EXCEPT ![self] =
               BfClearResult(bf_bit_array[self])]
        /\ bf_added' = [bf_added EXCEPT ![self] = {}]
        /\ bf_last' = BfCall("clear", self, 0, self, "ok", bf_bit_array[self])
        /\ UNCHANGED <<sketch, hsvars, ct_log, ckvars, hllvars, bfparams, bf_third>>

\* add on the third filter
BfThirdAdd ==
    \E item \in Items :
        /\ sketch = "BloomFilter"
        /\ bf_third' = BfAddResult(bf_seeds["x"], bf_third, bf_size["x"],
                                   bf_number_of_hashers["x"], item)
        /\ UNCHANGED <<sketch, hsvars, ct_log, ckvars, hllvars, bfparams, bf_bit_array,
                       bf_added, bf_last>>

BfNext == BfAdd \/ BfMergeWith \/ BfClear

----------------------------------------------------------------------------
\* HyperLogLog

\* DEFAULT_SEED
HllSeed == 5

\* seed arguments tried: the default and an explicit one; none is 0, so
\* XxHasher64.__init__ keeps the seed as given
HllSeedArguments == {HllSeed, 1}

\* HyperLogLog.HASH_BIT_SIZE
HASH_BIT_SIZE == 64

\* requested_number_of_buckets arguments tried
HllRequestedNumbersOfBuckets == {2, 3, 6}

\* __calculate_nearest_power_of_two: math.ceil(requested / 2) * 2
CalculateNearestPowerOfTwo(requested_number_of_buckets) ==
    ((requested_number_of_buckets + 1) \div 2) * 2

\* int(math.log2(n)) for n >= 1
RECURSIVE FloorLog2(_)
FloorLog2(n) == IF n <= 1 THEN 0 ELSE 1 + FloorLog2(n \div 2)

\* (1 << bucket_prefix_length) - 1
BucketPrefixMask(bucket_prefix_length) == Pow2(bucket_prefix_length) - 1

\* a value stored into the np.int8 array
Int8(v) == ((v + 128) % 256) - 128

\* __calculate_number_of_leading_zeros: the number of low-order zero bits,
\* or HASH_BIT_SIZE - bucket_prefix_length for 0
RECURSIVE CalculateNumberOfLeadingZeros(_, _)
CalculateNumberOfLeadingZeros(integer, bucket_prefix_length) ==
    IF integer = 0 THEN HASH_BIT_SIZE - bucket_prefix_length
    ELSE IF integer % 2 = 1 THEN 0
    ELSE 1 + CalculateNumberOfLeadingZeros(integer \div 2, bucket_prefix_length)

\* the registers of a freshly constructed counter (__init__, lines 81-88)
FreshHll(number_of_buckets) ==
    [buckets     |-> [i \in 0..(number_of_buckets - 1) |-> 0],
     activations |-> [i \in 0..(number_of_buckets - 1) |-> FALSE],
     count       |-> 0]

\* an add that counts the bucket as newly activated on every call
HllAddCountsEveryCall(seed, st, bucket_prefix_length, item) ==
    LET hashed_item == XxHasher64_hash(seed, Serialize(item))
        bucket_id == BitAnd(hashed_item, BucketPrefixMask(bucket_prefix_length))
        hash_without_bucket_prefix == hashed_item \div Pow2(bucket_prefix_length)
        leading_zeros == CalculateNumberOfLeadingZeros(hash_without_bucket_prefix,
                                                       bucket_prefix_length)
    IN  [buckets     |-> [st.buckets EXCEPT ![bucket_id] =
                             Int8(Max(@, leading_zeros))],
         activations |-> [st.activations EXCEPT ![bucket_id] = TRUE],
         count       |-> st.count + 1]

\* an add that stores the item's number of leading zeros in the register
\* whatever the register holds
HllAddOverwrites(seed, st, bucket_prefix_length, item) ==
    LET hashed_item == XxHasher64_hash(seed, Serialize(item))
        bucket_id == BitAnd(hashed_item, BucketPrefixMask(bucket_prefix_length))
        hash_without_bucket_prefix == hashed_item \div Pow2(bucket_prefix_length)
        leading_zeros == CalculateNumberOfLeadingZeros(hash_without_bucket_prefix,
                                                       bucket_prefix_length)
    IN  [buckets     |-> [st.buckets EXCEPT ![bucket_id] = Int8(leading_zeros)],
         activations |-> [st.activations EXCEPT ![bucket_id] = TRUE],
         count       |-> IF st.activations[bucket_id] THEN st.count
                         ELSE st.count + 1]

\* add
HllAddResult(seed, st, bucket_prefix_length, item) ==
    LET hashed_item == XxHasher64_hash(seed, Serialize(item))
        bucket_id == BitAnd(hashed_item, BucketPrefixMask(bucket_prefix_length))
        hash_without_bucket_prefix == hashed_item \div Pow2(bucket_prefix_length)
        leading_zeros == CalculateNumberOfLeadingZeros(hash_without_bucket_prefix,
                                                       bucket_prefix_length)
    IN  [buckets     |-> [st.buckets EXCEPT ![bucket_id] =
                             Int8(Max(@, leading_zeros))],
         activations |-> [st.activations EXCEPT ![bucket_id] = TRUE],
         count       |-> IF st.activations[bucket_id] THEN st.count
                         ELSE st.count + 1]

\* a merge_with that asserts equal prefix lengths only
HllMergeChecksPrefixOnly(self, other) ==
    IF self.bucket_prefix_length # other.bucket_prefix_length
    THEN [buckets |-> self.buckets, activations |-> self.activations,
          count |-> self.count, result |-> "AssertionError"]
    ELSE LET common == DOMAIN self.activations \cap DOMAIN other.activations
             activations == [i \in DOMAIN self.activations |->
                                \/ self.activations[i]
                                \/ i \in common /\ other.activations[i]]
         IN  [buckets     |-> [i \in DOMAIN self.buckets |->
                                  IF i \in common
                                  THEN Max(self.buckets[i], other.buckets[i])
                                  ELSE self.buckets[i]],
              activations |-> activations,
              count       |-> Cardinality({i \in DOMAIN activations :
                                              activations[i]}),
              result      |-> "ok"]

\* a merge_with that takes the argument's register wherever the argument's
\* bucket is activated
HllMergeTakesOther(self, other) ==
    IF \/ self.number_of_buckets # other.number_of_buckets
       \/ self.bucket_prefix_length # other.bucket_prefix_length
    THEN [buckets |-> self.buckets, activations |-> self.activations,
          count |-> self.count, result |-> "AssertionError"]
    ELSE LET activations == [i \in DOMAIN self.activations |->
                                self.activations[i] \/ other.activations[i]]
         IN  [buckets     |-> [i \in DOMAIN self.buckets |->
                                  IF other.activations[i] THEN other.buckets[i]
                                  ELSE self.buckets[i]],
              activations |-> activations,
              count       |-> Cardinality({i \in DOMAIN activations :
                                              activations[i]}),
              result      |-> "ok"]

\* merge_with: asserts equal bucket counts and prefix lengths, then takes the
\* register-wise maximum, ORs the activations and recounts them
HllMergeWithResult(self, other) ==
    IF \/ self.number_of_buckets # other.number_of_buckets
       \/ self.bucket_prefix_length # other.bucket_prefix_length
    THEN [buckets |-> self.buckets, activations |-> self.activations,
          count |-> self.count, result |-> "AssertionError"]
    ELSE LET activations == [i \in DOMAIN self.activations |->
                                self.activations[i] \/ other.activations[i]]
         IN  [buckets     |-> [i \in DOMAIN self.buckets |->
                                  Max(self.buckets[i], other.buckets[i])],
              activations |-> activations,
              count       |-> Cardinality({i \in DOMAIN activations :
                                              activations[i]}),
              result      |-> "ok"]

\* a clear that zeroes the registers and the count and keeps the activation bits
HllClearKeepsActivations(st) ==
    [buckets     |-> [i \in DOMAIN st.buckets |-> 0],
     activations |-> st.activations,
     count       |-> 0]

\* clear
HllClearResult(st) ==
    [buckets     |-> [i \in DOMAIN st.buckets |-> 0],
     activations |-> [i \in DOMAIN st.activations |-> FALSE],
     count       |-> 0]

\* __calculate_bias_correction_factor, in thousandths (the last branch
\* rounded down)
CalculateBiasCorrectionFactor(number_of_buckets) ==
    IF number_of_buckets <= 16 THEN 673
    ELSE IF number_of_buckets <= 32 THEN 697
    ELSE IF number_of_buckets <= 64 THEN 709
    ELSE (721300 * number_of_buckets) \div (1000 * number_of_buckets + 1079)

\* one element of 2 ** self.__buckets: the power is computed in the
\* registers' type np.int8, so 2^7 wraps to -128 and 2^8 and above to 0
Int8PowerOfTwo(register) ==
    IF register >= 8 THEN 0 ELSE Int8(Pow2(register))

\* one element of 1 / (2 ** self.__buckets), times 128; the element is inf
\* where the power is 0, which the caller tells apart
InverseTimes128(power) ==
    IF power = 0 THEN 0
    ELSE IF power < 0 THEN 0 - (128 \div (0 - power))
    ELSE 128 \div power

\* __harmonic_mean_of_bucket_estimates:
\* self.__number_of_activated_buckets / np.sum(1 / (2 ** self.__buckets)),
\* kept as the numerator and the sum (times 128, or infinite)
HarmonicMeanOfBucketEstimates(st) ==
    LET powers == [i \in DOMAIN st.buckets |-> Int8PowerOfTwo(st.buckets[i])]
        inverses == [i \in DOMAIN st.buckets |-> InverseTimes128(powers[i])]
    IN  [numerator |-> st.count,
         infinite  |-> \E i \in DOMAIN powers : powers[i] = 0,
         sum128    |-> SumTo(inverses, Cardinality(DOMAIN st.buckets) - 1)]

\* raw_estimate > self.__small_range_correction_threshold, where
\* raw_estimate = bias * b * harmonic mean and the threshold is 2.5 * b:
\* a / inf is 0, a / 0 is inf for a > 0 and nan for a = 0
RawEstimateExceedsThreshold(number_of_buckets, harmonic_mean) ==
    IF harmonic_mean.infinite THEN FALSE
    ELSE IF harmonic_mean.sum128 = 0 THEN harmonic_mean.numerator > 0
    ELSE IF harmonic_mean.sum128 < 0 THEN FALSE
    ELSE 128 * CalculateBiasCorrectionFactor(number_of_buckets)
             * harmonic_mean.numerator
         > 2500 * harmonic_mean.sum128

\* unique_count: which expression is returned, and the quantities it is
\* computed from
HllUniqueCountResult(st) ==
    LET harmonic_mean == HarmonicMeanOfBucketEstimates(st)
        deactivated_buckets == st.number_of_buckets - st.count
    IN  [returns |->
             IF RawEstimateExceedsThreshold(st.number_of_buckets, harmonic_mean)
             THEN "raw_estimate"
             ELSE IF deactivated_buckets = 0 THEN "raw_estimate"
             ELSE "linear_counting",
         harmonic_mean       |-> harmonic_mean,
         deactivated_buckets |-> deactivated_buckets]

\* the sign of the number unique_count returns: the raw estimate
\* bias * b * (a / sum) has the sign of a / sum (0 for an infinite sum, inf
\* for a / 0 with a > 0, nan for 0 / 0); -b * log(z / b) with 0 < z <= b is
\* 0 for z = b and positive otherwise
HllUniqueCountSign(result) ==
    LET harmonic_mean == result.harmonic_mean
    IN  IF result.returns = "linear_counting"
        THEN IF harmonic_mean.numerator = 0 THEN "zero" ELSE "positive"
        ELSE IF harmonic_mean.infinite THEN "zero"
        ELSE IF harmonic_mean.sum128 = 0
             THEN IF harmonic_mean.numerator > 0 THEN "positive" ELSE "nan"
        ELSE IF harmonic_mean.numerator = 0 THEN "zero"
        ELSE IF harmonic_mean.sum128 < 0 THEN "negative"
        ELSE "positive"

HllRegisters(c) ==
    [buckets     |-> hll_buckets[c],
     activations |-> hll_bucket_activations[c],
     count       |-> hll_number_of_activated_buckets[c]]

HllStateOf(c) ==
    [number_of_buckets    |-> hll_number_of_buckets[c],
     bucket_prefix_length |-> hll_bucket_prefix_length[c],
     buckets              |-> hll_buckets[c],
     activations          |-> hll_bucket_activations[c],
     count                |-> hll_number_of_activated_buckets[c]]

HllCall(op, self, item, other, result, pre) ==
    [op |-> op, self |-> self, item |-> item, other |-> other,
     result |-> result, pre |-> pre]

HllNoCall == HllCall("init", "x", 0, "x", "ok", FreshHll(0))

\* __init__ of both counters
HllInit ==
    \E requested \in [Instances -> HllRequestedNumbersOfBuckets],
       seed \in [Instances -> HllSeedArguments] :
        LET number_of_buckets ==
                [c \in Instances |-> CalculateNearestPowerOfTwo(requested[c])]
        IN  /\ hll_requested = requested
            /\ hll_seed = seed
            /\ hll_added = [c \in Instances |-> {}]
            /\ hll_number_of_buckets = number_of_buckets
            /\ hll_bucket_prefix_length =
                   [c \in Instances |-> FloorLog2(number_of_buckets[c])]
            /\ hll_buckets =
                   [c \in Instances |-> FreshHll(number_of_buckets[c]).buckets]
            /\ hll_bucket_activations =
                   [c \in Instances |-> FreshHll(number_of_buckets[c]).activations]
            /\ hll_number_of_activated_buckets =
                   [c \in Instances |-> FreshHll(number_of_buckets[c]).count]
            /\ hll_third = FreshHll(number_of_buckets["x"])
            /\ hll_last = HllNoCall

\* no HyperLogLog is constructed
HllAbsent ==
    /\ hll_requested = [c \in Instances |-> 0]
    /\ hll_number_of_buckets = [c \in Instances |-> 0]
    /\ hll_bucket_prefix_length = [c \in Instances |-> 0]
    /\ hll_seed = [c \in Instances |-> 0]
    /\ hll_added = [c \in Instances |-> {}]
    /\ hll_buckets = [c \in Instances |-> FreshHll(0).buckets]
    /\ hll_bucket_activations = [c \in Instances |-> FreshHll(0).activations]
    /\ hll_number_of_activated_buckets = [c \in Instances |-> 0]
    /\ hll_third = FreshHll(0)
    /\ hll_last = HllNoCall

\* the registers of counter self become out
HllSetRegisters(self, out) ==
    /\ hll_buckets' = [hll_buckets EXCEPT ![self] = out.buckets]
    /\ hll_bucket_activations' =
           [hll_bucket_activations EXCEPT ![self] = out.activations]
    /\ hll_number_of_activated_buckets' =
           [hll_number_of_activated_buckets EXCEPT ![self] = out.count]

HllAdd ==
    \E self \in Instances, item \in Items :
        /\ sketch = "HyperLogLog"
        /\ HllSetRegisters(self, HllAddResult(hll_seed[self], HllRegisters(self),
                                              hll_bucket_prefix_length[self], item))
        /\ hll_added' = [hll_added EXCEPT ![self] = @ \cup {item}]
        /\ hll_last' = HllCall("add", self, item, self, "ok", HllRegisters(self))
        /\ UNCHANGED <<sketch, hsvars, ct_log, ckvars, bfvars, hllparams, hll_third>>

HllMergeWith ==
    \E self \in Instances, other \in Instances :
        LET out == HllMergeWithResult(HllStateOf(self), HllStateOf(other))
        IN  /\ sketch = "HyperLogLog"
            /\ HllSetRegisters(self, out)
            /\ hll_added' = IF out.result = "ok" /\ hll_seed[self] = hll_seed[other]
                            THEN [hll_added EXCEPT ![self] = @ \cup hll_added[other]]
                            ELSE hll_added
            /\ hll_last' = HllCall("merge_with", self, 0, other, out.result,
                                   HllRegisters(self))
            /\ UNCHANGED <<sketch, hsvars, ct_log, ckvars, bfvars, hllparams, hll_third>>

HllClear ==
    \E self \in Instances :
        /\ sketch = "HyperLogLog"
        /\ HllSetRegisters(self, HllClearResult(HllRegisters(self)))
        /\ hll_added' = [hll_added EXCEPT ![self] = {}]
        /\ hll_last' = HllCall("clear", self, 0, self, "ok", HllRegisters(self))
        /\ UNCHANGED <<sketch, hsvars, ct_log, ckvars, bfvars, hllparams, hll_third>>

\* unique_count: a query, it leaves the counter as it is
HllUniqueCount ==
    \E self \in Instances :
        /\ sketch = "HyperLogLog"
        /\ hll_last' = HllCall("unique_count", self, 0, self,
                               HllUniqueCountResult(HllStateOf(self)),
                               HllRegisters(self))
        /\ UNCHANGED <<sketch, hsvars, ct_log, ckvars, bfvars, hllparams, hll_third,
                       hll_buckets, hll_bucket_activations,
                       hll_number_of_activated_buckets, hll_added>>

\* add on the third counter
HllThirdAdd ==
    \E item \in Items :
        /\ sketch = "HyperLogLog"
        /\ hll_third' = HllAddResult(hll_seed["x"], hll_third,
                                     hll_bucket_prefix_length["x"], item)
        /\ UNCHANGED <<sketch, hsvars, ct_log, ckvars, bfvars, hllparams, hll_buckets,
                       hll_bucket_activations, hll_number_of_activated_buckets,
                       hll_added, hll_last>>

HllNext == HllAdd \/ HllMergeWith \/ HllClear

----------------------------------------------------------------------------
\* Hashers

HasherClasses == {"XxHasher64", "XxHasher32"}

\* explicit seed arguments tried
HsSeedArguments == {0, 1, 2}

\* values that random.randint(0, 2**32), or random.randint(0, 2**16), returns
RandomSeeds == {0, 1, 2}

\* __init__: self.__seed = seed if seed else random.randint(...); a seed of 0
\* is falsy, so it is replaced as a missing seed is
StoredSeeds(seed) == IF seed # 0 THEN {seed} ELSE RandomSeeds

\* hash
HasherHash(class, seed, serialized_item) ==
    IF class = "XxHasher64" THEN XxHasher64_hash(seed, serialized_item)
    ELSE XxHasher32_hash(seed, serialized_item)

\* __init__ of both hashers, given the same seed argument
HsInit ==
    /\ hs_class \in HasherClasses
    /\ hs_argument \in HsSeedArguments
    /\ hs_seed \in [Instances -> StoredSeeds(hs_argument)]
    /\ hs_results = {}

\* no hasher is constructed on its own
HsAbsent ==
    /\ hs_class = "none"
    /\ hs_argument = 0
    /\ hs_seed = [h \in Instances |-> 0]
    /\ hs_results = {}

\* both hashers hash the same serialized item
HsHash ==
    \E item \in Items :
        /\ sketch = "XxHasher"
        /\ hs_results' = hs_results \cup
               {[data   |-> Serialize(item),
                 hashes |-> [h \in Instances |->
                                HasherHash(hs_class, hs_seed[h], Serialize(item))]]}
        /\ UNCHANGED <<sketch, ckvars, bfvars, hllvars, ct_log, hs_class,
                       hs_argument, hs_seed>>

----------------------------------------------------------------------------
\* Constructors called with arguments of any kind

\* a probability argument sign * 2^(-e)
Probability(sign, e) == [sign |-> sign, e |-> e]

\* constructor arguments tried
HllConstructorArguments ==
    {[requested_number_of_buckets |-> r] : r \in {-1, 0, 2}}

BfConstructorArguments ==
    {[expected_item_count |-> n, target_false_positive_prob |-> prob] :
        n \in {0, 1},
        prob \in {Probability(1, 3), Probability(1, 0), Probability(0, 0)}}

\* fingerprint_size 0 stands for the default None
CkConstructorArguments ==
    {[expected_item_count |-> 1, target_total_size |-> t,
      target_false_positive_prob |-> prob, fingerprint_size |-> fs] :
        t \in {3, 16},
        prob \in {Probability(1, 2), Probability(1, 0)},
        fs \in {0, ck_fingerprint_size}}

\* HyperLogLog.__init__: math.log2 of a number of buckets that is not
\* positive raises ValueError
HllConstruct(args) ==
    IF CalculateNearestPowerOfTwo(args.requested_number_of_buckets) <= 0
    THEN "ValueError"
    ELSE "constructed"

\* BloomFilter.__init__: math.log of a probability that is not positive
\* raises ValueError, and so does bitarray of a negative size
BfConstruct(args) ==
    LET prob == args.target_false_positive_prob
    IN  IF prob.sign <= 0 THEN "ValueError"
        ELSE IF CalculateBitArraySize(args.expected_item_count, prob.e) < 0
             THEN "ValueError"
        ELSE "constructed"

\* __calculate_fingerprint_size for items_per_bucket = 2 and a probability
\* 2^(-e) <= 1: min(32, ceil(max(ln(n / 2), log2(2 / p)))), where
\* ln(n / 2) < 1 + e for the item counts tried
CalculateFingerprintSize(expected_item_count, prob) == Min(32, 1 + prob.e)

\* CuckooFilter.__init__: the arguments are read by
\* __calculate_fingerprint_size only, and only when fingerprint_size is not
\* given: math.log of an item count that is not positive, math.log2 of a
\* negative ratio raise ValueError, a probability of 0 ZeroDivisionError;
\* bitarray of a negative size raises ValueError
CkConstruct(args) ==
    LET prob == args.target_false_positive_prob
        computed == args.fingerprint_size = 0
        fingerprint_size ==
            IF computed
            THEN CalculateFingerprintSize(args.expected_item_count, prob)
            ELSE args.fingerprint_size
        number_of_buckets ==
            args.target_total_size \div (ck_max_items_per_bucket * fingerprint_size)
    IN  IF computed /\ args.expected_item_count <= 0 THEN "ValueError"
        ELSE IF computed /\ prob.sign = 0 THEN "ZeroDivisionError"
        ELSE IF computed /\ prob.sign < 0 THEN "ValueError"
        ELSE IF number_of_buckets < 0 THEN "ValueError"
        ELSE "constructed"

\* the number of buckets of a CuckooFilter that was constructed
CkConstructedBuckets(args) ==
    args.target_total_size \div
        (ck_max_items_per_bucket *
            (IF args.fingerprint_size = 0
             THEN CalculateFingerprintSize(args.expected_item_count,
                                           args.target_false_positive_prob)
             ELSE args.fingerprint_size))

\* constructor calls the log holds at most
MaxConstructions == 2

CtInit == ct_log = {}

CtAbsent == ct_log = {}

ConstructorCall(class, args, outcome) ==
    [class |-> class, arguments |-> args, outcome |-> outcome]

CtHyperLogLog ==
    \E args \in HllConstructorArguments :
        /\ sketch = "Constructor"
        /\ Cardinality(ct_log) < MaxConstructions
        /\ ct_log' = ct_log \cup
               {ConstructorCall("HyperLogLog", args, HllConstruct(args))}
        /\ UNCHANGED <<sketch, ckvars, bfvars, hllvars, hsvars>>

CtBloomFilter ==
    \E args \in BfConstructorArguments :
        /\ sketch = "Constructor"
        /\ Cardinality(ct_log) < MaxConstructions
        /\ ct_log' = ct_log \cup
               {ConstructorCall("BloomFilter", args, BfConstruct(args))}
        /\ UNCHANGED <<sketch, ckvars, bfvars, hllvars, hsvars>>

CtCuckooFilter ==
    \E args \in CkConstructorArguments :
        /\ sketch = "Constructor"
        /\ Cardinality(ct_log) < MaxConstructions
        /\ ct_log' = ct_log \cup
               {ConstructorCall("CuckooFilter", args, CkConstruct(args))}
        /\ UNCHANGED <<sketch, ckvars, bfvars, hllvars, hsvars>>

CtNext == CtHyperLogLog \/ CtBloomFilter \/ CtCuckooFilter

----------------------------------------------------------------------------
\* Specifications

Sketches ==
    {"CuckooFilter", "BloomFilter", "HyperLogLog", "XxHasher", "Constructor"}

Init ==
    /\ sketch \in Sketches
    /\ IF sketch = "CuckooFilter" THEN CkInit ELSE CkAbsent
    /\ IF sketch = "BloomFilter" THEN BfInit ELSE BfAbsent
    /\ IF sketch = "HyperLogLog" THEN HllInit ELSE HllAbsent
    /\ IF sketch = "XxHasher" THEN HsInit ELSE HsAbsent
    /\ IF sketch = "Constructor" THEN CtInit ELSE CtAbsent

Next ==
    \/ CkNext \/ CkNextMerge \/ BfNext \/ HllNext \/ BfThirdAdd \/ HllThirdAdd
    \/ HllUniqueCount \/ HsHash \/ CtNext

\* the program instantiates CuckooFilter
InitCuckoo == Init /\ sketch = "CuckooFilter"

\* the program instantiates BloomFilter
InitBloom == Init /\ sketch = "BloomFilter"

\* the program instantiates HyperLogLog
InitHll == Init /\ sketch = "HyperLogLog"

\* the program instantiates two hashers of one class
InitHasher == Init /\ sketch = "XxHasher"

\* the program calls constructors with arguments of any kind
InitConstructor == Init /\ sketch = "Constructor"

\* every sketch is built with the default seeds
DefaultSeeds ==
    /\ sketch = "BloomFilter" => \A f \in Instances : bf_seeds[f] = BfSeeds
    /\ sketch = "HyperLogLog" => \A c \in Instances : hll_seed[c] = HllSeed

\* both sketches are built from the same arguments, seeds apart
SameArguments ==
    /\ bf_size["x"] = bf_size["y"]
    /\ bf_number_of_hashers["x"] = bf_number_of_hashers["y"]
    /\ hll_requested["x"] = hll_requested["y"]

\* the program instantiates a sketch that supports merge_with, leaving the
\* seeds to their defaults
InitMergeable ==
    Init /\ sketch \in {"BloomFilter", "HyperLogLog"} /\ DefaultSeeds

\* the program instantiates mergeable sketches from identical arguments
InitIdentical == InitMergeable /\ SameArguments

\* the program instantiates two BloomFilters from the same arguments and the
\* same seeds, default or not
InitBloomAlike ==
    InitBloom /\ SameArguments /\ bf_seeds["x"] = bf_seeds["y"]

\* the program instantiates two sketches that support merge_with from the
\* same arguments and the same seeds, default or not
InitAlike ==
    /\ Init
    /\ sketch \in {"BloomFilter", "HyperLogLog"}
    /\ SameArguments
    /\ bf_seeds["x"] = bf_seeds["y"]
    /\ hll_seed["x"] = hll_seed["y"]

\* the program instantiates HyperLogLog, leaving the seed to its default
InitHllDefault == InitHll /\ DefaultSeeds

\* the program instantiates sketches that support merge_with from the same
\* arguments, with seeds of its choice
InitSeeded ==
    Init /\ sketch \in {"BloomFilter", "HyperLogLog"} /\ SameArguments

\* every sketch, every operation
Spec == Init /\ [][Next]_vars

\* a CuckooFilter driven by add and delete only
SpecCuckooAddDelete ==
    InitCuckoo /\ [][CkNextAddDelete]_vars

\* a CuckooFilter driven by add, delete, clear and merge_with
SpecCuckoo == InitCuckoo /\ [][CkNext]_vars

\* two CuckooFilters: one driven by add and merge_with, the other
\* (merge_with's argument) by add
SpecCuckooMerge == InitCuckoo /\ [][CkNextMerge]_vars

\* two BloomFilters driven by add only
SpecBloomAdd == InitBloom /\ [][BfAdd]_vars

\* two BloomFilters driven by add, merge_with and clear
SpecBloom == InitBloom /\ [][BfNext]_vars

\* two HyperLogLog counters driven by add, merge_with and clear
SpecHll == InitHll /\ [][HllNext]_vars

\* two HyperLogLog counters built with the default seed, driven by add,
\* merge_with, clear and unique_count
SpecHllCount ==
    InitHllDefault /\ [][HllNext \/ HllUniqueCount]_vars

\* the sketches that support merge_with: two BloomFilters or two HyperLogLog
\* counters, driven by add, merge_with and clear
SpecMergeable ==
    InitMergeable /\ [][BfNext \/ HllNext]_vars

\* three sketches built from the same arguments: add and merge_with on two
\* of them, add on the third (clear only leads back to the initial state)
SpecMergeThree ==
    InitIdentical /\
        [][BfAdd \/ BfMergeWith \/ BfThirdAdd
              \/ HllAdd \/ HllMergeWith \/ HllThirdAdd]_vars

\* two BloomFilters built from the same arguments and seeds, driven by add,
\* merge_with and clear
SpecBloomAlike == InitBloomAlike /\ [][BfNext]_vars

\* constructors called with valid and invalid arguments
SpecConstructor == InitConstructor /\ [][CtNext]_vars

\* two hashers built with the same seed argument, hashing the same data
SpecHasher == InitHasher /\ [][HsHash]_vars

\* two sketches built from the same arguments and seeds, each filled by add
\* calls in an order of its own
SpecAddOrder == InitAlike /\ [][BfAdd \/ HllAdd]_vars

\* two sketches built from the same arguments with seeds of the program's
\* choice, driven by add, merge_with and clear
SpecSeeded == InitSeeded /\ [][BfNext \/ HllNext]_vars

----------------------------------------------------------------------------
\* Claims about BloomFilter and HyperLogLog

\* C1: a BloomFilter has no false negatives: after any sequence of add calls
\* on a fresh filter, contains(x) is true for every item x that was added
C1_BloomNoFalseNegatives ==
    sketch = "BloomFilter" =>
        \A f \in Instances : \A item \in bf_added[f] :
            BfContains(bf_seeds[f], bf_bit_array[f], bf_size[f],
                       bf_number_of_hashers[f], item)

\* C1 witness: a filter to which two items were added, the last call being an
\* add that changed the bit array, and which reports a third item as absent
C1_Witness ==
    /\ sketch = "BloomFilter"
    /\ bf_last.op = "add"
    /\ bf_last.pre # bf_bit_array[bf_last.self]
    /\ Cardinality(bf_added[bf_last.self]) >= 2
    /\ \E item \in Items \ bf_added[bf_last.self] :
           ~BfContains(bf_seeds[bf_last.self], bf_bit_array[bf_last.self],
                       bf_size[bf_last.self],
                       bf_number_of_hashers[bf_last.self], item)

\* n is a power of two
IsPowerOfTwo(n) == \E e \in 0..n : Pow2(e) = n

\* C11: the number of buckets of a HyperLogLog is the smallest power of two
\* that is at least the requested number and at least 16, and it equals
\* 2^bucket_prefix_length
C11_BucketsArePowerOfTwo ==
    sketch = "HyperLogLog" =>
        \A c \in Instances :
            /\ IsPowerOfTwo(hll_number_of_buckets[c])
            /\ hll_number_of_buckets[c] >= hll_requested[c]
            /\ hll_number_of_buckets[c] >= 16
            /\ \A n \in 16..hll_number_of_buckets[c] :
                   (IsPowerOfTwo(n) /\ n >= hll_requested[c])
                       => n = hll_number_of_buckets[c]
            /\ hll_number_of_buckets[c] = Pow2(hll_bucket_prefix_length[c])

\* the filter that self.merge_with(other) leaves in self
BfMerged(self, other) ==
    [size |-> self.size, bits |-> BfMergeWithResult(self, other).bits]

\* the counter that self.merge_with(other) leaves in self
HllMerged(self, other) ==
    LET out == HllMergeWithResult(self, other)
    IN  [number_of_buckets    |-> self.number_of_buckets,
         bucket_prefix_length |-> self.bucket_prefix_length,
         buckets              |-> out.buckets,
         activations          |-> out.activations,
         count                |-> out.count]

\* the third filter, the third counter
BfThirdState == [size |-> bf_size["x"], bits |-> bf_third]

HllThirdState ==
    [number_of_buckets    |-> hll_number_of_buckets["x"],
     bucket_prefix_length |-> hll_bucket_prefix_length["x"],
     buckets              |-> hll_third.buckets,
     activations          |-> hll_third.activations,
     count                |-> hll_third.count]

\* filters "x" and "y" (counters "x" and "y") were built with the same arguments
BfSameParameters ==
    /\ bf_size["x"] = bf_size["y"]
    /\ bf_number_of_hashers["x"] = bf_number_of_hashers["y"]
    /\ bf_seeds["x"] = bf_seeds["y"]

HllSameParameters ==
    /\ hll_requested["x"] = hll_requested["y"]
    /\ hll_seed["x"] = hll_seed["y"]

\* C12: for sketches A, B, C built with the same parameters, in any states,
\* A.merge_with(B) and B.merge_with(A) leave equal states, and merging (A
\* with B) with C leaves the same state as merging A with (B with C); a
\* BloomFilter then answers contains alike
C12_MergeCommutativeAssociative ==
    /\ (sketch = "BloomFilter" /\ BfSameParameters) =>
           LET A == BfStateOf("x")
               B == BfStateOf("y")
               C == BfThirdState
           IN  /\ BfMergeWithResult(A, B).result = "ok"
               /\ BfMerged(A, B) = BfMerged(B, A)
               /\ BfMerged(BfMerged(A, B), C) = BfMerged(A, BfMerged(B, C))
               /\ \A item \in Items :
                      BfContains(bf_seeds["x"], BfMerged(A, B).bits, bf_size["x"],
                                 bf_number_of_hashers["x"], item)
                      = BfContains(bf_seeds["y"], BfMerged(B, A).bits, bf_size["y"],
                                   bf_number_of_hashers["y"], item)
    /\ (sketch = "HyperLogLog" /\ HllSameParameters) =>
           LET A == HllStateOf("x")
               B == HllStateOf("y")
               C == HllThirdState
           IN  /\ HllMergeWithResult(A, B).result = "ok"
               /\ HllMerged(A, B) = HllMerged(B, A)
               /\ HllMerged(HllMerged(A, B), C) = HllMerged(A, HllMerged(B, C))

\* C12 witness: three HyperLogLog counters built alike whose registers differ
\* pairwise, two of them holding different values in one register
C12_Witness ==
    /\ sketch = "HyperLogLog"
    /\ HllSameParameters
    /\ hll_buckets["x"] # hll_buckets["y"]
    /\ hll_buckets["x"] # hll_third.buckets
    /\ hll_buckets["y"] # hll_third.buckets
    /\ \E i \in DOMAIN hll_buckets["x"] :
           /\ hll_bucket_activations["x"][i]
           /\ hll_bucket_activations["y"][i]
           /\ hll_buckets["x"][i] # hll_buckets["y"][i]
    /\ hll_third.count > 0

\* the argument of the last merge_with as it was when the call was made: a
\* call leaves its argument alone unless the argument is the receiver
BfOtherAtCall ==
    IF bf_last.other = bf_last.self THEN bf_last.pre
    ELSE bf_bit_array[bf_last.other]

HllOtherAtCall ==
    IF hll_last.other = hll_last.self THEN hll_last.pre
    ELSE HllRegisters(hll_last.other)

\* C13: right after self.merge_with(other), where other was built with the
\* same parameters and is in the state of a freshly constructed (or cleared)
\* sketch, the call has succeeded and the receiver's bit array (registers,
\* activation bits and activated-bucket count) is what it was before the call
C13_MergeWithEmptyIsNoOp ==
    /\ ( /\ sketch = "BloomFilter"
         /\ bf_last.op = "merge_with"
         /\ bf_size[bf_last.self] = bf_size[bf_last.other]
         /\ BfOtherAtCall = FreshBloom(bf_size[bf_last.other]) )
           => /\ bf_last.result = "ok"
              /\ bf_bit_array[bf_last.self] = bf_last.pre
    /\ ( /\ sketch = "HyperLogLog"
         /\ hll_last.op = "merge_with"
         /\ hll_number_of_buckets[hll_last.self]
                = hll_number_of_buckets[hll_last.other]
         /\ hll_bucket_prefix_length[hll_last.self]
                = hll_bucket_prefix_length[hll_last.other]
         /\ HllOtherAtCall = FreshHll(hll_number_of_buckets[hll_last.other]) )
           => /\ hll_last.result = "ok"
              /\ HllRegisters(hll_last.self) = hll_last.pre

\* C13 witness: a BloomFilter holding two items has just been merged with
\* another filter of the same size whose bit array is all zeros
C13_Witness ==
    /\ sketch = "BloomFilter"
    /\ bf_last.op = "merge_with"
    /\ bf_last.self # bf_last.other
    /\ bf_size[bf_last.self] = bf_size[bf_last.other]
    /\ bf_bit_array[bf_last.other] = FreshBloom(bf_size[bf_last.other])
    /\ Cardinality(bf_added[bf_last.self]) >= 2
    /\ \E i \in DOMAIN bf_last.pre : bf_last.pre[i] = 1

\* C14: when lhs.merge_with(rhs) succeeds on two BloomFilters built with the
\* same parameters and seeds, every item added before to lhs or to rhs is a
\* member of lhs afterwards, and the bit array of rhs is what it was
C14_BloomMergeIsUnion ==
    [][LET lhs == bf_last'.self
           rhs == bf_last'.other
       IN  ( /\ bf_last'.op = "merge_with"
             /\ BfMergeWith
             /\ bf_size[lhs] = bf_size[rhs]
             /\ bf_number_of_hashers[lhs] = bf_number_of_hashers[rhs]
             /\ bf_seeds[lhs] = bf_seeds[rhs] )
               => /\ bf_last'.result = "ok"
                  /\ \A item \in bf_added[lhs] \cup bf_added[rhs] :
                         BfContains(bf_seeds[lhs], bf_bit_array'[lhs],
                                    bf_size[lhs], bf_number_of_hashers[lhs], item)
                  /\ bf_bit_array'[rhs] = bf_bit_array[rhs]]_vars

\* C14 witness: a BloomFilter that held items has just been merged with a
\* second one built with the same parameters and the same non-default seeds;
\* the second one holds at least two items, one that the receiver lacked
\* and whose bits the merge has set, and shares a set bit with the receiver
C14_Witness ==
    /\ sketch = "BloomFilter"
    /\ bf_last.op = "merge_with"
    /\ bf_last.result = "ok"
    /\ bf_last.self # bf_last.other
    /\ bf_seeds[bf_last.self] = bf_seeds[bf_last.other]
    /\ bf_seeds[bf_last.self] # BfSeeds
    /\ Cardinality(bf_added[bf_last.other]) >= 2
    /\ Cardinality(bf_added[bf_last.self]) > Cardinality(bf_added[bf_last.other])
    /\ bf_last.pre # bf_bit_array[bf_last.self]
    /\ \E i \in DOMAIN bf_last.pre :
           bf_last.pre[i] = 1 /\ bf_bit_array[bf_last.other][i] = 1
    /\ \E item \in bf_added[bf_last.other] :
           ~BfContains(bf_seeds[bf_last.self], bf_last.pre,
                       bf_size[bf_last.self],
                       bf_number_of_hashers[bf_last.self], item)

\* C15: right after a merge_with between two HyperLogLog counters with
\* different numbers of buckets, or between two BloomFilters with different
\* bit-array sizes, the call has failed with an assertion error and the
\* receiver's state is what it was before the call
C15_MismatchedSizeFails ==
    /\ ( /\ sketch = "BloomFilter"
         /\ bf_last.op = "merge_with"
         /\ bf_size[bf_last.self] # bf_size[bf_last.other] )
           => /\ bf_last.result = "AssertionError"
              /\ bf_bit_array[bf_last.self] = bf_last.pre
    /\ ( /\ sketch = "HyperLogLog"
         /\ hll_last.op = "merge_with"
         /\ hll_number_of_buckets[hll_last.self]
                # hll_number_of_buckets[hll_last.other] )
           => /\ hll_last.result = "AssertionError"
              /\ HllRegisters(hll_last.self) = hll_last.pre

\* C15 witness: merge_with has just been called on a HyperLogLog counter
\* with an activated bucket, its argument being a counter with another
\* number of buckets, the same prefix length, and an activated bucket that
\* the receiver lacks
C15_Witness ==
    /\ sketch = "HyperLogLog"
    /\ hll_last.op = "merge_with"
    /\ hll_number_of_buckets[hll_last.self]
           # hll_number_of_buckets[hll_last.other]
    /\ hll_bucket_prefix_length[hll_last.self]
           = hll_bucket_prefix_length[hll_last.other]
    /\ hll_last.pre.count > 0
    /\ \E i \in DOMAIN hll_last.pre.activations :
           /\ i \in DOMAIN hll_bucket_activations[hll_last.other]
           /\ hll_bucket_activations[hll_last.other][i]
           /\ ~hll_last.pre.activations[i]

\* C16: right after a merge_with between two HyperLogLog counters built with
\* different seeds, or between two BloomFilters built with different seed
\* pairs, the call has been rejected and the receiver's arrays are what they
\* were before the call
C16_MismatchedSeedsRejected ==
    /\ ( /\ sketch = "BloomFilter"
         /\ bf_last.op = "merge_with"
         /\ bf_seeds[bf_last.self] # bf_seeds[bf_last.other] )
           => /\ bf_last.result # "ok"
              /\ bf_bit_array[bf_last.self] = bf_last.pre
    /\ ( /\ sketch = "HyperLogLog"
         /\ hll_last.op = "merge_with"
         /\ hll_seed[hll_last.self] # hll_seed[hll_last.other] )
           => /\ hll_last.result # "ok"
              /\ HllRegisters(hll_last.self) = hll_last.pre

\* C17: two fresh sketches built alike to which the same items were added,
\* in any order and any number of times each, hold the same bit array
\* (BloomFilter), the same registers, activation bits and activated-bucket
\* count (HyperLogLog)
C17_InsertOrderIrrelevant ==
    /\ (sketch = "BloomFilter" /\ bf_added["x"] = bf_added["y"])
           => bf_bit_array["x"] = bf_bit_array["y"]
    /\ (sketch = "HyperLogLog" /\ hll_added["x"] = hll_added["y"])
           => HllRegisters("x") = HllRegisters("y")

\* C17 witness: two HyperLogLog counters hold the same items, two of which
\* fall into one bucket with different numbers of leading zeros, and the
\* last add left the registers as they were
C17_Witness ==
    /\ sketch = "HyperLogLog"
    /\ hll_added["x"] = hll_added["y"]
    /\ hll_last.op = "add"
    /\ hll_last.pre = HllRegisters(hll_last.self)
    /\ \E i \in hll_added["x"], j \in hll_added["x"] :
           LET fresh == FreshHll(hll_number_of_buckets["x"])
               si == HllAddResult(hll_seed["x"], fresh,
                                  hll_bucket_prefix_length["x"], i)
               sj == HllAddResult(hll_seed["x"], fresh,
                                  hll_bucket_prefix_length["x"], j)
           IN  si.activations = sj.activations /\ si.buckets # sj.buckets

\* some bit of some BloomFilter that is set before the step is not set after it
BfSomeBitReset ==
    \E f \in Instances : \E i \in DOMAIN bf_bit_array[f] :
        bf_bit_array[f][i] = 1 /\ bf_bit_array'[f][i] # 1

\* C18: no add call and no merge_with call resets a bit of a BloomFilter's
\* array; a step that resets one is a clear call
C18_BloomBitsMonotone ==
    [][/\ (BfAdd \/ BfMergeWith) => ~BfSomeBitReset
       /\ BfSomeBitReset => (bf_last'.op = "clear" /\ BfClear)]_vars

\* C18 witness: merge_with has just succeeded on a BloomFilter that had a bit
\* set which its argument lacks, the argument having a bit set which the
\* receiver lacked
C18_Witness ==
    /\ sketch = "BloomFilter"
    /\ bf_last.op = "merge_with"
    /\ bf_last.result = "ok"
    /\ \E i \in DOMAIN bf_last.pre :
           bf_last.pre[i] = 1 /\ bf_bit_array[bf_last.other][i] = 0
    /\ \E i \in DOMAIN bf_last.pre :
           bf_last.pre[i] = 0 /\ bf_bit_array[bf_last.other][i] = 1

\* C19: two hashers of one class constructed with the same explicit seed,
\* 0 included, have returned equal hashes for every input hashed
C19_HasherDeterministic ==
    sketch = "XxHasher" =>
        \A r \in hs_results : r.hashes["x"] = r.hashes["y"]

\* 128 * Sum_i 2^(-registers[i]) over the registers up to 7, an integer
ExactSum128(buckets) ==
    SumTo([i \in DOMAIN buckets |->
              IF buckets[i] <= 7 THEN 128 \div Pow2(buckets[i]) ELSE 0],
          Cardinality(DOMAIN buckets) - 1)

\* the sign of remainder - 2500 * 128 * Sum 2^(-registers[i]) over the
\* registers above 7 + done, remainder being scaled by 2^done: is it positive?
\* Each further register takes less than 2500 * 2^(-1) from the scaled
\* remainder, so a remainder of 2500 * b or more stays positive
RECURSIVE RemainderStaysPositive(_, _, _)
RemainderStaysPositive(remainder, done, buckets) ==
    LET b == Cardinality(DOMAIN buckets)
        here == Cardinality({i \in DOMAIN buckets : buckets[i] = 7 + done + 1})
    IN  IF remainder <= 0 THEN FALSE
        ELSE IF remainder >= 2500 * b THEN TRUE
        ELSE IF \A i \in DOMAIN buckets : buckets[i] <= 7 + done THEN TRUE
        ELSE RemainderStaysPositive(2 * remainder - 2500 * here, done + 1, buckets)

\* E > 2.5 * b for E = alpha * b * b / Sum_i 2^(-registers[i]), the powers
\* being exact: alpha * b > 2.5 * Sum_i 2^(-registers[i])
EstimatorExceedsThreshold(st) ==
    RemainderStaysPositive(
        128 * CalculateBiasCorrectionFactor(st.number_of_buckets)
            * st.number_of_buckets
          - 2500 * ExactSum128(st.buckets),
        0, st.buckets)

\* what the estimator returns: E when E > 2.5 * b or no bucket is
\* deactivated, the Linear Counting value otherwise
EstimatorReturns(st) ==
    IF EstimatorExceedsThreshold(st) THEN "raw_estimate"
    ELSE IF st.number_of_buckets - st.count = 0 THEN "raw_estimate"
    ELSE "linear_counting"

\* the raw estimate alpha * b * a / S that the call computed is
\* E = alpha * b * b / Sum_i 2^(-registers[i]): S is finite and
\* a * Sum_i 2^(-registers[i]) = b * S
RawEstimateIsEstimator(st, result) ==
    /\ ~result.harmonic_mean.infinite
    /\ result.harmonic_mean.numerator * ExactSum128(st.buckets)
           = st.number_of_buckets * result.harmonic_mean.sum128

\* C20: unique_count returns E = alpha * b * b / Sum_i 2^(-registers[i])
\* when E > 2.5 * b or when no bucket is deactivated, and -b * ln(z / b) for
\* z = b - activated count otherwise; the choice is made on that E
C20_UniqueCountFollowsEstimator ==
    (sketch = "HyperLogLog" /\ hll_last.op = "unique_count") =>
        LET st == HllStateOf(hll_last.self)
            result == hll_last.result
        IN  /\ result.returns = EstimatorReturns(st)
            /\ result.returns = "raw_estimate" => RawEstimateIsEstimator(st, result)
            /\ result.deactivated_buckets = st.number_of_buckets - st.count

\* C21: the number unique_count returns is never negative (nor nan), and it
\* is 0 for a counter in the state of a freshly constructed one
C21_UniqueCountNonNegative ==
    (sketch = "HyperLogLog" /\ hll_last.op = "unique_count") =>
        /\ HllUniqueCountSign(hll_last.result) \in {"zero", "positive"}
        /\ HllRegisters(hll_last.self)
               = FreshHll(hll_number_of_buckets[hll_last.self])
             => HllUniqueCountSign(hll_last.result) = "zero"

\* C30: for every register value that add or merge_with has stored, the power
\* of two unique_count computes from it is positive and twice the power of
\* the register value below it (1 for register 0), and the sum of the inverse powers is finite and positive
C30_BucketPowersDoNotOverflow ==
    sketch = "HyperLogLog" =>
        \A c \in Instances :
            /\ \A i \in DOMAIN hll_buckets[c] :
                   LET register == hll_buckets[c][i]
                   IN  (0 <= register /\ register <= HASH_BIT_SIZE - hll_bucket_prefix_length[c]) =>
                           /\ Int8PowerOfTwo(register) > 0
                           /\ Int8PowerOfTwo(register) =
                                  IF register = 0 THEN 1
                                  ELSE 2 * Int8PowerOfTwo(register - 1)
            /\ ~HarmonicMeanOfBucketEstimates(HllRegisters(c)).infinite
            /\ HarmonicMeanOfBucketEstimates(HllRegisters(c)).sum128 > 0

\* a probability strictly between 0 and 1
ProbabilityInRange(prob) == prob.sign > 0 /\ prob.e > 0

\* C22: no constructor call has succeeded for HyperLogLog with a bucket count
\* that is not positive, for BloomFilter or CuckooFilter with a probability
\* outside (0, 1) or an item count that is not positive, or for CuckooFilter
\* with a total size that yields zero buckets
C22_ConstructionValidates ==
    \A call \in ct_log :
        LET args == call.arguments
        IN  /\ ( /\ call.class = "HyperLogLog"
                 /\ args.requested_number_of_buckets <= 0 )
                   => call.outcome # "constructed"
            /\ ( /\ call.class \in {"BloomFilter", "CuckooFilter"}
                 /\ \/ ~ProbabilityInRange(args.target_false_positive_prob)
                    \/ args.expected_item_count <= 0 )
                   => call.outcome # "constructed"
            /\ ( /\ call.class = "CuckooFilter"
                 /\ call.outcome = "constructed" )
                   => CkConstructedBuckets(args) # 0

\* C23: an add of an item that the counter already holds leaves the
\* registers, the activation bits and the activated-bucket count as they
\* were, and with them what unique_count returns
C23_DuplicateAddChangesNothing ==
    [][LET self == hll_last'.self
       IN  ( /\ hll_last'.op = "add"
             /\ HllAdd
             /\ hll_last'.item \in hll_added[self] )
               => /\ hll_buckets'[self] = hll_buckets[self]
                  /\ hll_bucket_activations'[self] = hll_bucket_activations[self]
                  /\ hll_number_of_activated_buckets'[self]
                         = hll_number_of_activated_buckets[self]
                  /\ HllUniqueCountResult([number_of_buckets |-> hll_number_of_buckets[self],
                                           bucket_prefix_length |-> hll_bucket_prefix_length[self],
                                           buckets |-> hll_buckets'[self],
                                           activations |-> hll_bucket_activations'[self],
                                           count |-> hll_number_of_activated_buckets'[self]])
                         = HllUniqueCountResult(HllStateOf(self))]_vars

\* C23 witness: add has just been called with an item on a counter whose
\* register for the item's bucket already held the item's own number of
\* leading zeros, not 0, another bucket being activated too
C23_Witness ==
    /\ sketch = "HyperLogLog"
    /\ hll_last.op = "add"
    /\ hll_last.item \in hll_added[hll_last.self]
    /\ hll_last.pre.count >= 2
    /\ LET self == hll_last.self
           alone == HllAddResult(hll_seed[self],
                                 FreshHll(hll_number_of_buckets[self]),
                                 hll_bucket_prefix_length[self], hll_last.item)
       IN  \E i \in DOMAIN alone.buckets :
               /\ alone.activations[i]
               /\ alone.buckets[i] > 0
               /\ hll_last.pre.activations[i]
               /\ hll_last.pre.buckets[i] = alone.buckets[i]

\* the position of the lowest set bit of integer, counted from 0
RECURSIVE LowestSetBit(_)
LowestSetBit(integer) ==
    IF integer % 2 = 1 THEN 0 ELSE 1 + LowestSetBit(integer \div 2)

\* rho: the position of the lowest set bit plus one, 64 - p for 0
Rho(integer, bucket_prefix_length) ==
    IF integer = 0 THEN HASH_BIT_SIZE - bucket_prefix_length
    ELSE LowestSetBit(integer) + 1

\* C24: right after add of an item with hash h on a counter with b buckets
\* and prefix length p, register i = h & (b - 1) holds the maximum of its
\* former value and rho(h >> p), activation bit i is set, the
\* activated-bucket count has grown by one if bit i was not set and not at
\* all otherwise, and every other register and activation bit is as before
C24_AddUpdatesRegister ==
    (sketch = "HyperLogLog" /\ hll_last.op = "add") =>
        LET self == hll_last.self
            pre == hll_last.pre
            p == hll_bucket_prefix_length[self]
            h == XxHasher64_hash(hll_seed[self], Serialize(hll_last.item))
            i == BitAnd(h, hll_number_of_buckets[self] - 1)
            rho == Rho(h \div Pow2(p), p)
        IN  /\ hll_buckets[self] =
                   [pre.buckets EXCEPT ![i] = Max(pre.buckets[i], rho)]
            /\ hll_bucket_activations[self] =
                   [pre.activations EXCEPT ![i] = TRUE]
            /\ hll_number_of_activated_buckets[self] =
                   IF pre.activations[i] THEN pre.count ELSE pre.count + 1

\* the buckets that an add of item updates on counter c
HllBucketOf(c, item) ==
    LET alone == HllAddResult(hll_seed[c], FreshHll(hll_number_of_buckets[c]),
                              hll_bucket_prefix_length[c], item)
    IN  {i \in DOMAIN alone.activations : alone.activations[i]}

\* C25: the activated-bucket count of every counter is the number of its set
\* activation bits, and activation bit i is set exactly when an add, on the
\* counter or on a counter merged into it, has updated register i since the
\* last clear
C25_ActivationInvariants ==
    sketch = "HyperLogLog" =>
        \A c \in Instances :
            /\ hll_number_of_activated_buckets[c] =
                   Cardinality({i \in DOMAIN hll_bucket_activations[c] :
                                   hll_bucket_activations[c][i]})
            /\ \A i \in DOMAIN hll_bucket_activations[c] :
                   hll_bucket_activations[c][i]
                       <=> \E item \in hll_added[c] : i \in HllBucketOf(c, item)

\* C25 witness: a counter has just taken over, by merge_with, an activated
\* bucket that no add on it had touched, next to one that an add had
C25_Witness ==
    /\ sketch = "HyperLogLog"
    /\ hll_last.op = "merge_with"
    /\ hll_last.result = "ok"
    /\ hll_last.pre.count >= 1
    /\ hll_number_of_activated_buckets[hll_last.self] > hll_last.pre.count
    /\ hll_number_of_activated_buckets[hll_last.self]
           < hll_number_of_buckets[hll_last.self]

\* C10: right after clear, the HyperLogLog registers, activation bits and
\* activated-bucket count (the BloomFilter bit array) equal those of a freshly
\* constructed sketch with the same parameters
C10_ClearResetsToFresh ==
    /\ (sketch = "BloomFilter" /\ bf_last.op = "clear") =>
           bf_bit_array[bf_last.self] = FreshBloom(bf_size[bf_last.self])
    /\ (sketch = "HyperLogLog" /\ hll_last.op = "clear") =>
           HllRegisters(hll_last.self) =
               FreshHll(hll_number_of_buckets[hll_last.self])

\* C10 witness: clear was called on a HyperLogLog counter that had two
\* activated buckets and a non-zero register
C10_Witness ==
    /\ sketch = "HyperLogLog"
    /\ hll_last.op = "clear"
    /\ hll_last.pre.count >= 2
    /\ \E i \in DOMAIN hll_last.pre.buckets : hll_last.pre.buckets[i] > 0

----------------------------------------------------------------------------
\* Claims about CuckooFilter

\* the step just taken was a call of op on the CuckooFilter
CkStepOf(op) == ck_calls' = ck_calls + 1 /\ ck_last'.op = op

\* number of occupied slots (bucket, slot) holding fingerprint
LiveCopies(st, fingerprint) ==
    Cardinality({bs \in (DOMAIN st.occ) \X (0..MaxCalls) :
                    /\ bs[2] < st.occ[bs[1]]
                    /\ GetItem(st.bits, bs[1], bs[2]) = fingerprint})

\* number of distinct slots of the bit array that lie in the occupied prefix
\* of some bucket and hold fingerprint (slot p starts at bit p * fingerprint_size)
StoredCopies(st, fingerprint) ==
    Cardinality({p \in {bs[1] * ck_max_items_per_bucket + bs[2] :
                            bs \in {c \in (DOMAIN st.occ) \X (0..MaxCalls) :
                                        c[2] < st.occ[c[1]]}} :
                    GetItem(st.bits, 0, p) = fingerprint})

\* number of adds not yet deleted of items whose fingerprint is fingerprint
RECURSIVE InsertedWith(_, _)
InsertedWith(fingerprint, n) ==
    IF n = 0 THEN 0
    ELSE InsertedWith(fingerprint, n - 1)
            + (IF Fingerprint(n) = fingerprint THEN ck_inserted[n] ELSE 0)

\* C26: as long as every add returned normally and every delete was applied
\* to a previously inserted item, the fingerprint in every occupied slot of
\* every bucket is the fingerprint of an item added and not deleted of which
\* that bucket is a candidate bucket
C26_CandidateBucketInvariant ==
    (sketch = "CuckooFilter" /\ ck_intact) =>
        \A bucket_id \in DOMAIN ck_current_items_per_bucket :
            \A item_id \in 0..(ck_current_items_per_bucket[bucket_id] - 1) :
                LET fingerprint == GetItem(ck_bit_array, bucket_id, item_id)
                IN  \E item \in Items :
                        /\ ck_inserted[item] > 0
                        /\ Fingerprint(item) = fingerprint
                        /\ \E k \in 1..2 :
                               GetLocations(item, fingerprint)[k] = bucket_id

\* delete's two lookups: neither candidate bucket of item holds its
\* fingerprint in its occupied prefix
AbsentFromCandidates(st, item) ==
    LET fingerprint == Fingerprint(item)
        locations == GetLocations(item, fingerprint)
    IN  \A k \in 1..2 :
            GetItemIdInBucket(st.bits, st.occ, locations[k], fingerprint) = -1

\* C27: a delete of an item whose fingerprint is in the occupied prefix of
\* neither of its candidate buckets leaves the bit array and every occupancy
\* counter as they were
C27_DeleteAbsentIsNoOp ==
    [][(CkStepOf("delete") /\ AbsentFromCandidates(CkState, ck_last'.item)) =>
           /\ ck_bit_array' = ck_bit_array
           /\ ck_current_items_per_bucket' = ck_current_items_per_bucket]_vars

\* an add of one item followed by a delete of another item, whose fingerprint
\* the filter does not hold: the filter still holds the one fingerprint
C27_Witness ==
    /\ sketch = "CuckooFilter"
    /\ ck_calls = 2
    /\ ck_last.op = "delete"
    /\ ck_inserted[ck_last.item] = 0
    /\ ~ck_intact
    /\ TotalOccupancy(ck_current_items_per_bucket) = 1
    /\ AbsentFromCandidates(CkState, ck_last.item)
    /\ \E item \in Items : ck_inserted[item] = 1 /\ CkContains(ck_bit_array, ck_current_items_per_bucket, item)

\* the bucket whose slots hold bit number position of the bit array
\* (__item_bit_coordinates read backwards; positions count from 1)
BucketOfBit(position) == (position - 1) \div ck_bucket_size

\* the positions at which the bit arrays before and after differ, a position
\* that only one of them has included
AlteredBits(before, after) ==
    {position \in 1..(IF Len(before) > Len(after) THEN Len(before) ELSE Len(after)) :
        \/ position > Len(before)
        \/ position > Len(after)
        \/ before[position] # after[position]}

\* C28: an add that stores its fingerprint without an eviction, and a delete,
\* alter bits of the item's two candidate buckets only and leave the length
\* of the bit array as it was: each slot they write is one of the slots
\* 0..items_per_bucket-1 of the bucket they address
C28_SlotWritesStayInBucket ==
    [][((CkStepOf("add") /\ ck_last'.result = "ok" /\ ck_last'.relocations = 0)
           \/ CkStepOf("delete")) =>
           LET item == ck_last'.item
               locations == GetLocations(item, Fingerprint(item))
           IN  /\ Len(ck_bit_array') = ck_number_of_buckets * ck_bucket_size
               /\ \A position \in AlteredBits(ck_bit_array, ck_bit_array') :
                      \E k \in 1..2 : BucketOfBit(position) = locations[k]]_vars

\* the fingerprints a slot can hold
Fingerprints == 0..ck_fingerprint_mask

\* C29: an add that returns normally leaves, of every fingerprint, the copies
\* stored before plus one more of the new item's fingerprint, and the sum of
\* the occupancy counters grows by one; an add that raises
\* CuckooInsertionFailure leaves every occupancy counter as it was and, of
\* every fingerprint, the copies stored before plus one of the new item's
\* fingerprint minus one of the fingerprint evicted last
C29_EvictionConservesFingerprints ==
    [][CkStepOf("add") =>
           LET new == Fingerprint(ck_last'.item)
               before == CkState
               after == [bits |-> ck_bit_array', occ |-> ck_current_items_per_bucket']
           IN  /\ ck_last'.result = "ok" =>
                      /\ TotalOccupancy(after.occ) = TotalOccupancy(before.occ) + 1
                      /\ \A fingerprint \in Fingerprints :
                             LiveCopies(after, fingerprint) =
                                 LiveCopies(before, fingerprint)
                                     + (IF fingerprint = new THEN 1 ELSE 0)
               /\ ck_last'.result = "CuckooInsertionFailure" =>
                      /\ after.occ = before.occ
                      /\ \A fingerprint \in Fingerprints :
                             LiveCopies(after, fingerprint) =
                                 LiveCopies(before, fingerprint)
                                     + (IF fingerprint = new THEN 1 ELSE 0)
                                     - (IF fingerprint = ck_last'.dropped THEN 1 ELSE 0)]_vars

\* C2: no false negatives: as long as every add returned normally and every
\* delete was applied to a previously inserted item, every item added and
\* not deleted is reported by contains
C2_NoFalseNegatives ==
    ck_intact =>
        \A item \in Items :
            ck_inserted[item] > 0 =>
                CkContains(ck_bit_array, ck_current_items_per_bucket, item)

\* C3: every occupancy counter is within 0..items_per_bucket, and the
\* occupied slots hold exactly the fingerprints currently stored
C3_OccupancyInvariant ==
    /\ \A b \in DOMAIN ck_current_items_per_bucket :
            /\ 0 <= ck_current_items_per_bucket[b]
            /\ ck_current_items_per_bucket[b] <= ck_max_items_per_bucket
    /\ ck_intact =>
            \A fingerprint \in 0..ck_fingerprint_mask :
                LiveCopies(CkState, fingerprint) = InsertedWith(fingerprint, NumItems)

\* C4: when a candidate bucket of the item has a free slot, add appends the
\* fingerprint to a candidate bucket that has a free slot and evicts nothing
C4_AddUsesFreeCandidate ==
    [][
        LET item == ck_last'.item
            fingerprint == Fingerprint(item)
            locations == GetLocations(item, fingerprint)
            occ == ck_current_items_per_bucket
        IN  (/\ CkStepOf("add")
             /\ \E k \in 1..2 : occ[locations[k]] < ck_max_items_per_bucket)
            => /\ ck_last'.result = "ok"
               /\ ck_last'.relocations = 0
               /\ \E k \in 1..2 :
                    /\ occ[locations[k]] < ck_max_items_per_bucket
                    /\ ck_current_items_per_bucket' =
                            [occ EXCEPT ![locations[k]] = @ + 1]
                    /\ GetItem(ck_bit_array', locations[k], occ[locations[k]])
                            = fingerprint
    ]_vars

\* C5: one delete call lowers the sum of the occupancy counters by 0 or 1
C5_DeleteRemovesAtMostOne ==
    [][
        CkStepOf("delete") =>
            TotalOccupancy(ck_current_items_per_bucket)
                - TotalOccupancy(ck_current_items_per_bucket') \in {0, 1}
    ]_vars

\* C6: delete(x) of a stored item overwrites the slot of x's fingerprint, in
\* the first candidate bucket holding it, with the bucket's last occupied
\* slot and decrements that bucket's occupancy only; afterwards contains(x)
\* is false when that was the only copy in x's candidate buckets, and
\* contains(y) still holds for every other stored item y
C6_DeleteStoredItem ==
    [][
        LET item == ck_last'.item
            fingerprint == Fingerprint(item)
            locations == GetLocations(item, fingerprint)
            bits == ck_bit_array
            occ == ck_current_items_per_bucket
            k == IF GetItemIdInBucket(bits, occ, locations[1], fingerprint) >= 0
                 THEN 1 ELSE 2
            item_id == GetItemIdInBucket(bits, occ, locations[k], fingerprint)
            copies == Cardinality({bs \in {locations[1], locations[2]} \X (0..MaxCalls) :
                                    /\ bs[2] < occ[bs[1]]
                                    /\ GetItem(bits, bs[1], bs[2]) = fingerprint})
        IN  (/\ CkStepOf("delete")
             /\ ck_intact /\ ck_inserted[item] > 0
             /\ CkContains(bits, occ, item))
            => /\ ck_current_items_per_bucket' = [occ EXCEPT ![locations[k]] = @ - 1]
               /\ ck_bit_array' =
                    SetItem(bits, locations[k], item_id,
                            GetItem(bits, locations[k], occ[locations[k]] - 1))
               /\ copies = 1 =>
                    ~CkContains(ck_bit_array', ck_current_items_per_bucket', item)
               /\ \A y \in Items \ {item} :
                    (ck_inserted[y] > 0 /\ CkContains(bits, occ, y))
                        => CkContains(ck_bit_array', ck_current_items_per_bucket', y)
    ]_vars

\* C7: add makes at most max_item_relocations evictions; it raises
\* CuckooInsertionFailure only when no candidate bucket had a free slot and
\* max_item_relocations evictions found no bucket with a free slot (no
\* occupancy counter changes); otherwise it returns normally, one occupancy
\* counter is one higher and an occupied slot holds the item's fingerprint
\* (the fingerprint is stored)
C7_AddTerminates ==
    [][
        LET item == ck_last'.item
            fingerprint == Fingerprint(item)
            locations == GetLocations(item, fingerprint)
            occ == ck_current_items_per_bucket
            free == \E k \in 1..2 : occ[locations[k]] < ck_max_items_per_bucket
        IN  CkStepOf("add")
            => /\ ck_last'.relocations \in 0..ck_max_item_relocations
               /\ ck_last'.result \in {"ok", "CuckooInsertionFailure"}
               /\ ck_last'.result = "CuckooInsertionFailure"
                    => /\ ~free
                       /\ ck_last'.relocations = ck_max_item_relocations
                       /\ ck_current_items_per_bucket' = occ
               /\ ck_last'.result = "ok"
                    => /\ free <=> ck_last'.relocations = 0
                       /\ \E b \in DOMAIN occ :
                            ck_current_items_per_bucket' = [occ EXCEPT ![b] = @ + 1]
                       /\ StoredCopies([bits |-> ck_bit_array',
                                         occ  |-> ck_current_items_per_bucket'],
                                        fingerprint) >= 1
    ]_vars

\* C7 witness: an add has raised CuckooInsertionFailure after
\* max_item_relocations evictions
C7_Witness ==
    /\ ck_last.op = "add"
    /\ ck_last.result = "CuckooInsertionFailure"
    /\ ck_last.relocations = ck_max_item_relocations

\* C8: merge_with raises NotImplementedError and leaves the bit array and
\* the occupancy counters of both filters as they were
C8_MergeNotSupported ==
    [][
        CkStepOf("merge_with")
            => /\ ck_last'.result = "NotImplementedError"
               /\ ck_bit_array' = ck_bit_array
               /\ ck_current_items_per_bucket' = ck_current_items_per_bucket
               /\ ck_other' = ck_other
    ]_vars

\* C8 witness: merge_with was called on a filter holding a fingerprint, with
\* an argument holding a fingerprint
C8_Witness ==
    /\ ck_last.op = "merge_with"
    /\ ck_last.result = "NotImplementedError"
    /\ TotalOccupancy(ck_current_items_per_bucket) > 0
    /\ TotalOccupancy(ck_other.occ) > 0

\* C9: after clear the filter is in the state of a freshly constructed one:
\* bit array all zero, every occupancy counter 0, contains false for all
C9_ClearResets ==
    ck_last.op = "clear" =>
        /\ CkState = FreshCuckoo(ck_number_of_buckets, 0)
        /\ \A item \in Items :
                ~CkContains(ck_bit_array, ck_current_items_per_bucket, item)

====
